---- MODULE Spec2Model ----
(***************************************************************************)
(* Feria mode (offline queue) of moltbot: the SQLite-backed MessageQueue,  *)
(* the ConnectivityMonitor and the plugin glue (processQueue, the          *)
(* before_message_process hook, the manual sync / check / cleanup          *)
(* commands).                                                              *)
(*                                                                         *)
(* Node runs the plugin on one thread: a handler runs without interruption *)
(* up to its next await.  The only awaits are the probe's fetch (check)    *)
(* and the re-injection call (processQueue), so an action below is one     *)
(* such uninterrupted stretch.                                             *)
(***************************************************************************)
EXTENDS Integers, Sequences, FiniteSets, TLC

\* ---------------------------------------------------------------- bounds
MaxMsgs == 3          \* Spec: messages the hook ever enqueues
MaxProbes == 2        \* Spec: check() calls in flight at once
MaxBacklogMsgs == 4   \* SpecBacklog: messages the hook ever enqueues
MaxBacklogProbes == 1 \* SpecBacklog: check() calls in flight at once
MaxFairMsgs == 2      \* FairSpec: messages the hook ever enqueues
MaxFairProbes == 2    \* FairSpec: check() calls in flight at once
MaxQMsgs == 3         \* SpecQ: rows ever inserted
MaxTime == 1          \* wall clock values 0..MaxTime
MaxLimit == 3         \* getPending / enforceMaxSize argument 0..MaxLimit
MaxAge == 1           \* cleanup argument 0..MaxAge
MaxAttempts == 2      \* SpecQ: cap on the attempts counter
MaxRuns == 2          \* processQueue invocations in flight at once
MaxCfgSize == 2       \* configured maxQueueSize 1..MaxCfgSize
MaxCfgBatch == 2      \* configured syncBatchSize 1..MaxCfgBatch

Ids == 1..MaxBacklogMsgs
NULL == -1          \* SQL NULL / undefined in an integer column

VARIABLES
    now,            \* Date.now()
    rows,           \* table queued_messages: id -> row
    nextId,         \* rowid of the next insert (stands for randomUUID)
    cfg,            \* the parsed plugin configuration
    state,          \* ConnectivityMonitor.state
    checkInterval,  \* ConnectivityMonitor.checkInterval is set
    probes,         \* check() calls awaiting fetch: previousState -> count
    isProcessing,   \* the in-flight flag of processQueue
    runs,           \* processQueue invocations awaiting injectMessage
    injected,       \* ids passed to api.injectMessage, in call order
    failedInj,      \* ids whose injectMessage call rejected
    ops,            \* calls and results of the last step, in order
    meta,           \* one message's metadata on its way through the queue
    waits,          \* the waitForOnline calls made, in call order
    timers,         \* setInterval schedules of the monitor that are active
    storage         \* the database: "ok", "fault" (operations raise), "closed"

vars == <<now, rows, nextId, cfg, state, checkInterval, probes, isProcessing,
          runs, injected, failedInj, ops, meta, waits, timers, storage>>

sysVars == <<cfg, state, checkInterval, probes, isProcessing, runs, injected,
             failedInj, meta, waits, timers, storage>>

Op(o, a, r) == [op |-> o, arg |-> a, out |-> r]

\* No message's metadata is being followed.
NoMeta == [pc |-> "none", given |-> <<>>, column |-> <<>>, queuedAt |-> NULL,
           msg |-> <<>>, passed |-> <<>>]

Min(a, b) == IF a <= b THEN a ELSE b

\* ------------------------------------------------------- MessageQueue
Status == {"pending", "processing", "failed", "completed"}

WithStatus(rs, S) == {i \in DOMAIN rs : rs[i].status \in S}

Pending(rs) == WithStatus(rs, {"pending"})

Delete(rs, D) == [i \in (DOMAIN rs) \ D |-> rs[i]]

\* INSERT ... VALUES (..., queued_at, 'pending'); attempts DEFAULT 0,
\* last_attempt_at NULL.
enqueue(rs, id, t) ==
    [i \in (DOMAIN rs) \cup {id} |->
        IF i = id
        THEN [queuedAt |-> t, attempts |-> 0, lastAttemptAt |-> NULL,
              status |-> "pending"]
        ELSE rs[i]]

\* The rows of S that ORDER BY queued_at ASC may put first: rows of equal
\* queued_at come in an order SQL leaves open.
Oldest(rs, S) == {i \in S : \A j \in S : rs[i].queuedAt <= rs[j].queuedAt}

\* ORDER BY queued_at ASC LIMIT k over the rows S: every sequence the
\* statement may return.
RECURSIVE OldestFirst(_, _, _)
OldestFirst(rs, S, k) ==
    IF k <= 0 \/ S = {}
    THEN {<<>>}
    ELSE UNION {{<<i>> \o t : t \in OldestFirst(rs, S \ {i}, k - 1)} :
                   i \in Oldest(rs, S)}

\* Mutant of getPending: the ORDER BY clause left out (rowid order).
RECURSIVE ByRowid(_, _)
ByRowid(S, k) ==
    IF k <= 0 \/ S = {}
    THEN <<>>
    ELSE LET m == CHOOSE i \in S : \A j \in S : i <= j
         IN  <<m>> \o ByRowid(S \ {m}, k - 1)

getPendingNoOrder(rs, limit) == {ByRowid(Pending(rs), limit)}

\* The rows of S that ORDER BY queued_at DESC may put first.
Newest(rs, S) == {i \in S : \A j \in S : rs[i].queuedAt >= rs[j].queuedAt}

RECURSIVE NewestFirst(_, _, _)
NewestFirst(rs, S, k) ==
    IF k <= 0 \/ S = {}
    THEN {<<>>}
    ELSE UNION {{<<i>> \o t : t \in NewestFirst(rs, S \ {i}, k - 1)} :
                   i \in Newest(rs, S)}

\* Mutant of getPending: ORDER BY queued_at DESC.
getPendingNewestFirst(rs, limit) == NewestFirst(rs, Pending(rs), limit)

\* SELECT * WHERE status = 'pending' ORDER BY queued_at ASC LIMIT ?
getPending(rs, limit) == OldestFirst(rs, Pending(rs), limit)

\* UPDATE SET status = 'processing', attempts = attempts + 1,
\* last_attempt_at = ? WHERE id = ?
markProcessing(rs, id, t) ==
    [i \in DOMAIN rs |->
        IF i = id
        THEN [rs[i] EXCEPT !.status = "processing",
                           !.attempts = @ + 1,
                           !.lastAttemptAt = t]
        ELSE rs[i]]

\* Mutant of markCompleted: the statement also counts an attempt.
markCompletedCountsAttempt(rs, id) ==
    [i \in DOMAIN rs |->
        IF i = id
        THEN [rs[i] EXCEPT !.status = "completed", !.attempts = @ + 1]
        ELSE rs[i]]

\* UPDATE SET status = 'completed' WHERE id = ?
markCompleted(rs, id) ==
    [i \in DOMAIN rs |->
        IF i = id THEN [rs[i] EXCEPT !.status = "completed"] ELSE rs[i]]

\* UPDATE SET status = 'failed' WHERE id = ?
markFailed(rs, id) ==
    [i \in DOMAIN rs |->
        IF i = id THEN [rs[i] EXCEPT !.status = "failed"] ELSE rs[i]]

\* Mutant of resetProcessing: failed rows are made pending too.
resetProcessingAlsoFailed(rs) ==
    [i \in DOMAIN rs |->
        IF rs[i].status \in {"processing", "failed"}
        THEN [rs[i] EXCEPT !.status = "pending"]
        ELSE rs[i]]

\* UPDATE SET status = 'pending' WHERE status = 'processing'
resetProcessing(rs) ==
    [i \in DOMAIN rs |->
        IF rs[i].status = "processing"
        THEN [rs[i] EXCEPT !.status = "pending"]
        ELSE rs[i]]

resetProcessingChanges(rs) == Cardinality(WithStatus(rs, {"processing"}))

\* Mutant of cleanupDeletes: the status filter left out.
cleanupDeletesAnyStatus(rs, t, maxAgeMs) ==
    {i \in DOMAIN rs : rs[i].queuedAt < t - maxAgeMs}

\* DELETE WHERE status IN ('completed', 'failed') AND queued_at < cutoff
cleanupDeletes(rs, t, maxAgeMs) ==
    {i \in WithStatus(rs, {"completed", "failed"}) :
        rs[i].queuedAt < t - maxAgeMs}

cleanup(rs, t, maxAgeMs) == Delete(rs, cleanupDeletes(rs, t, maxAgeMs))

\* Mutant of enforceMaxSizeDeletes: the newest pending rows dropped
\* (ORDER BY queued_at DESC).
enforceMaxSizeDeletesNewest(rs, maxSize) ==
    LET count == Cardinality(Pending(rs))
        P == Pending(rs)
    IN  IF count <= maxSize
        THEN {{}}
        ELSE {D \in SUBSET P :
                /\ Cardinality(D) = count - maxSize
                /\ \A d \in D : \A r \in P \ D :
                      rs[d].queuedAt >= rs[r].queuedAt}

\* count <= maxSize: nothing; else DELETE WHERE id IN (SELECT id WHERE
\* status = 'pending' ORDER BY queued_at ASC LIMIT count - maxSize).
\* Every set of ids the statement may delete.
enforceMaxSizeDeletes(rs, maxSize) ==
    LET count == Cardinality(Pending(rs))
    IN  IF count <= maxSize
        THEN {{}}
        ELSE {{s[a] : a \in 1..Len(s)} :
                 s \in OldestFirst(rs, Pending(rs), count - maxSize)}

\* ---------------------------------------------- the queue's interface
\* Calls of the MessageQueue methods in any order with any arguments.

QEnqueue ==
    /\ nextId <= MaxQMsgs
    /\ rows' = enqueue(rows, nextId, now)
    /\ nextId' = nextId + 1
    /\ ops' = <<Op("enqueue", nextId, <<>>)>>
    /\ UNCHANGED <<now, sysVars>>

QGetPending ==
    \E limit \in 0..MaxLimit : \E res \in getPending(rows, limit) :
        /\ ops' = <<Op("getPending", limit, res)>>
        /\ UNCHANGED <<now, rows, nextId, sysVars>>

QMarkProcessing ==
    \E id \in Ids :
        /\ id \in DOMAIN rows => rows[id].attempts < MaxAttempts
        /\ rows' = markProcessing(rows, id, now)
        /\ ops' = <<Op("markProcessing", id, <<>>)>>
        /\ UNCHANGED <<now, nextId, sysVars>>

QMarkCompleted ==
    \E id \in Ids :
        /\ rows' = markCompleted(rows, id)
        /\ ops' = <<Op("markCompleted", id, <<>>)>>
        /\ UNCHANGED <<now, nextId, sysVars>>

QMarkFailed ==
    \E id \in Ids :
        /\ rows' = markFailed(rows, id)
        /\ ops' = <<Op("markFailed", id, <<>>)>>
        /\ UNCHANGED <<now, nextId, sysVars>>

QResetProcessing ==
    /\ rows' = resetProcessing(rows)
    /\ ops' = <<Op("resetProcessing", 0, <<resetProcessingChanges(rows)>>)>>
    /\ UNCHANGED <<now, nextId, sysVars>>

QCleanup ==
    \E maxAgeMs \in 0..MaxAge :
        /\ rows' = cleanup(rows, now, maxAgeMs)
        /\ ops' = <<Op("cleanup", maxAgeMs,
                       <<Cardinality(cleanupDeletes(rows, now, maxAgeMs))>>)>>
        /\ UNCHANGED <<now, nextId, sysVars>>

QEnforceMaxSize ==
    \E maxSize \in 0..MaxLimit : \E D \in enforceMaxSizeDeletes(rows, maxSize) :
        /\ rows' = Delete(rows, D)
        /\ ops' = <<Op("enforceMaxSize", maxSize, <<Cardinality(D)>>)>>
        /\ UNCHANGED <<now, nextId, sysVars>>

\* Date.now() is the wall clock: it advances, and a clock adjustment sets
\* it back.
Tick ==
    /\ now < MaxTime
    /\ now' = now + 1
    /\ ops' = <<>>
    /\ UNCHANGED <<rows, nextId, sysVars>>

ClockAdjust ==
    \E t \in 0..(now - 1) :
        /\ now' = t
        /\ ops' = <<>>
        /\ UNCHANGED <<rows, nextId, sysVars>>

InitQ ==
    /\ now = 0
    /\ rows = <<>>
    /\ nextId = 1
    /\ cfg = [maxQueueSize |-> 1, syncBatchSize |-> 1, autoSync |-> TRUE,
              maxAgeMs |-> 0]
    /\ state = "unknown"
    /\ checkInterval = FALSE
    /\ probes = [s \in {"unknown", "online", "offline"} |-> 0]
    /\ isProcessing = FALSE
    /\ runs = <<>>
    /\ injected = <<>>
    /\ failedInj = {}
    /\ ops = <<>>
    /\ meta = NoMeta
    /\ waits = <<>>
    /\ timers = 0
    /\ storage = "ok"

NextQ ==
    \/ QEnqueue
    \/ QGetPending
    \/ QMarkProcessing
    \/ QMarkCompleted
    \/ QMarkFailed
    \/ QResetProcessing
    \/ QCleanup
    \/ QEnforceMaxSize
    \/ Tick
    \/ ClockAdjust

SpecQ == InitQ /\ [][NextQ]_vars

\* ------------------------------------------------ ConnectivityMonitor
States == {"unknown", "online", "offline"}

InFlight == probes["unknown"] + probes["online"] + probes["offline"]

isOnline == state = "online"

\* check() up to its await: previousState = this.state, then fetch.
CheckBegin(maxProbes) ==
    /\ InFlight < maxProbes
    /\ probes' = [probes EXCEPT ![state] = @ + 1]

\* How the fetch of a probe settles: a response with a success status, a
\* response with another status, the abort after 5 s, a connection error.
FetchOutcomes == <<"ok", "status", "timeout", "error">>

Outcomes == {FetchOutcomes[k] : k \in 1..Len(FetchOutcomes)}

OutcomeCode(outcome) ==
    CHOOSE k \in 1..Len(FetchOutcomes) : FetchOutcomes[k] = outcome

\* Mutant of checkResult: no catch block, a rejected fetch leaves the state
\* as it is and check() rejects.
checkResultNoCatch(outcome, cur) ==
    IF outcome \in {"timeout", "error"}
    THEN [state |-> cur, raised |-> TRUE]
    ELSE [state |-> IF outcome = "ok" THEN "online" ELSE "offline",
          raised |-> FALSE]

\* try { ... this.state = response.ok ? "online" : "offline" }
\* catch { this.state = "offline" }: the state check() sets, and whether
\* it rejects.
checkResult(outcome, cur) ==
    IF outcome \in {"timeout", "error"}
    THEN [state |-> "offline", raised |-> FALSE]
    ELSE [state |-> IF outcome = "ok" THEN "online" ELSE "offline",
          raised |-> FALSE]

\* check() after its await, for a call that read previousState = prev and
\* whose probe gave result: the events it emits.
checkEvents(prev, result) ==
    IF prev # result
    THEN <<Op("emit_change", 0, <<>>), Op("emit_" \o result, 0, <<>>)>>
    ELSE <<>>

\* A waitForOnline call: its once("online") listener is registered, its
\* timeout is armed, the values it has resolved its promise with, and
\* whether the state has been online since the call.
Waiter(l, t, r, s) ==
    [listening |-> l, timer |-> t, results |-> r, sawOnline |-> s]

\* waitForOnline(timeoutMs): true at once if the state is online, else a
\* promise with a timeout and a once("online") listener.
waitForOnline ==
    IF state = "online"
    THEN Waiter(FALSE, FALSE, <<TRUE>>, TRUE)
    ELSE Waiter(TRUE, TRUE, <<>>, FALSE)

\* onOnline, run once by emit("online"): clearTimeout, resolve(true)
onOnline(x) ==
    [x EXCEPT !.listening = FALSE, !.timer = FALSE,
              !.results = Append(@, TRUE)]

\* the timeout callback: removeListener("online", onOnline), resolve(false)
onTimeout(x) ==
    [x EXCEPT !.listening = FALSE, !.timer = FALSE,
              !.results = Append(@, FALSE)]

\* What a check() that read previousState = prev and got result does to
\* the waiters: emit("online") runs the listeners still registered.
onProbe(ws, prev, result) ==
    [w \in 1..Len(ws) |->
        LET x == IF result = "online" /\ (ws[w].listening \/ ws[w].timer)
                 THEN [ws[w] EXCEPT !.sawOnline = TRUE]
                 ELSE ws[w]
        IN  IF prev # result /\ result = "online" /\ x.listening
            THEN onOnline(x)
            ELSE x]

\* --------------------------------------------------------- processQueue
\* What one uninterrupted stretch of processQueue leaves: the table, the
\* invocation if it now awaits injectMessage (else it returned), the id it
\* passed to injectMessage, the calls it made, whether it ran the finally
\* block, whether it took the early return.
Outcome(rs, run, inj, o, fin, early) ==
    [rows |-> rs, run |-> run, inj |-> inj, ops |-> o, fin |-> fin,
     early |-> early]

\* break / loop exit, finally { isProcessing = false }, return processed
Finish(rs, p, o) ==
    Outcome(rs, <<>>, <<>>, o \o <<Op("return", p, <<>>)>>, TRUE, FALSE)

\* The calls o ended in an exception that nothing caught.
Raised(o) == o # <<>> /\ o[Len(o)].op = "throw"

\* A queue operation raised outside the inner try, or inside its catch
\* block: finally { isProcessing = false }, and the promise rejects.
Raise(rs, o) ==
    Outcome(rs, <<>>, <<>>, o \o <<Op("throw", 0, <<>>)>>, TRUE, FALSE)

\* Mutant of AfterExit: the flag reset after the try block instead of in
\* a finally block.
AfterExitNoFinally(flag, o) == IF Raised(o) THEN flag ELSE FALSE

\* The in-flight flag once the try block was left having made the calls
\* o: finally { isProcessing = false }
AfterExit(flag, o) == FALSE

\* for (const msg of pending): markProcessing(msg.id); await injectMessage.
\* batch holds msg.id and at holds msg.queuedAt of the fetched messages
\* not yet done.
ProcessNext(rs, batch, at, p, o) ==
    Outcome(markProcessing(rs, Head(batch), now),
            <<[batch |-> batch, at |-> at, processed |-> p]>>,
            <<Head(batch)>>,
            o \o <<Op("markProcessing", Head(batch), <<>>),
                   Op("inject", Head(batch), <<>>)>>,
            FALSE, FALSE)

\* while (true): pending = getPending(syncBatchSize); empty => break
FetchBatch(rs, p, o) ==
    {IF res = <<>>
     THEN Finish(rs, p, o \o <<Op("getPending", cfg.syncBatchSize, res)>>)
     ELSE ProcessNext(rs, res, [a \in 1..Len(res) |-> rs[res[a]].queuedAt],
                      p, o \o <<Op("getPending", cfg.syncBatchSize, res)>>) :
        res \in getPending(rs, cfg.syncBatchSize)}

\* Mutant of AfterMessage: the connectivity check between batches left
\* out.
AfterMessageNoOnlineCheck(rs, rest, at, p, o) ==
    IF rest # <<>>
    THEN {ProcessNext(rs, rest, at, p, o)}
    ELSE FetchBatch(rs, p, o \o <<Op("isOnline", 1, <<>>)>>)

\* Mutant of AfterMessage: the while loop left out, one batch is fetched
\* and the run returns after it.
AfterMessageOneBatch(rs, rest, at, p, o) ==
    IF rest # <<>>
    THEN {ProcessNext(rs, rest, at, p, o)}
    ELSE {Finish(rs, p, o)}

\* After the try/catch of one message: the next message of the batch, or
\* the connectivity check between batches.
AfterMessage(rs, rest, at, p, o) ==
    IF rest # <<>>
    THEN {ProcessNext(rs, rest, at, p, o)}
    ELSE IF ~isOnline
         THEN {Finish(rs, p, o \o <<Op("isOnline", 0, <<>>)>>)}
         ELSE FetchBatch(rs, p, o \o <<Op("isOnline", 1, <<>>)>>)

\* Mutant of Resume: no catch block, a rejected injectMessage leaves the
\* loop through finally.
ResumeNoCatch(rs, run, ok) ==
    LET h == Head(run.batch)
    IN  IF ok
        THEN AfterMessage(markCompleted(rs, h), Tail(run.batch),
                          Tail(run.at), run.processed + 1,
                          <<Op("injectOk", h, <<>>),
                            Op("markCompleted", h, <<>>)>>)
        ELSE {Outcome(rs, <<>>, <<>>,
                      <<Op("injectErr", h, <<>>), Op("throw", 0, <<>>)>>,
                      TRUE, FALSE)}

\* injectMessage settled for the head of the batch: markCompleted and
\* processed++, or the catch block's markFailed; then on with the loop.
Resume(rs, run, ok) ==
    LET h == Head(run.batch)
    IN  IF storage # "ok"
        THEN {Raise(rs, IF ok
                        THEN <<Op("injectOk", h, <<>>),
                               Op("markCompleted", h, <<>>),
                               Op("throw", h, <<>>),
                               Op("markFailed", h, <<>>)>>
                        ELSE <<Op("injectErr", h, <<>>),
                               Op("markFailed", h, <<>>)>>)}
        ELSE IF ok
        THEN AfterMessage(markCompleted(rs, h), Tail(run.batch),
                          Tail(run.at), run.processed + 1,
                          <<Op("injectOk", h, <<>>),
                            Op("markCompleted", h, <<>>)>>)
        ELSE AfterMessage(markFailed(rs, h), Tail(run.batch),
                          Tail(run.at), run.processed,
                          <<Op("injectErr", h, <<>>),
                            Op("markFailed", h, <<>>)>>)

\* Mutant of processQueue: the in-flight guard left out.
processQueueNoGuard(rs, flag) ==
    LET rs1 == resetProcessing(rs)
        rs2 == cleanup(rs1, now, cfg.maxAgeMs)
    IN  FetchBatch(rs2, 0,
            <<Op("processQueue", 0, <<>>),
              Op("resetProcessing", 0, <<resetProcessingChanges(rs)>>),
              Op("cleanup", cfg.maxAgeMs,
                 <<Cardinality(cleanupDeletes(rs1, now, cfg.maxAgeMs))>>)>>)

\* processQueue() from its call to its first await or its return.
processQueue(rs, flag) ==
    IF flag
    THEN {Outcome(rs, <<>>, <<>>,
                  <<Op("processQueue", 0, <<>>), Op("return", 0, <<>>)>>,
                  FALSE, TRUE)}
    ELSE IF storage # "ok"
    THEN {Raise(rs, <<Op("processQueue", 0, <<>>),
                      Op("resetProcessing", 0, <<>>)>>)}
    ELSE LET rs1 == resetProcessing(rs)
             rs2 == cleanup(rs1, now, cfg.maxAgeMs)
         IN  FetchBatch(rs2, 0,
                 <<Op("processQueue", 0, <<>>),
                   Op("resetProcessing", 0, <<resetProcessingChanges(rs)>>),
                   Op("cleanup", cfg.maxAgeMs,
                      <<Cardinality(cleanupDeletes(rs1, now, cfg.maxAgeMs))>>)>>)

\* The effect of a processQueue() call made in this step, after the calls
\* pre of the caller.
Invoke(pre) ==
    /\ Len(runs) < MaxRuns
    /\ \E out \in processQueue(rows, isProcessing) :
        /\ rows' = out.rows
        /\ runs' = runs \o out.run
        /\ injected' = injected \o out.inj
        /\ isProcessing' = IF out.early THEN isProcessing
                           ELSE IF out.fin THEN AfterExit(TRUE, out.ops)
                           ELSE TRUE
        /\ ops' = pre \o out.ops

RemoveAt(s, r) == SubSeq(s, 1, r - 1) \o SubSeq(s, r + 1, Len(s))

\* ------------------------------------------------------ plugin actions
\* Mutant of Start: start() without its guard, a second schedule is set
\* and the handle of the first is lost.
StartNoGuard(maxProbes) ==
    /\ CheckBegin(maxProbes)
    /\ checkInterval' = TRUE
    /\ timers' = timers + 1
    /\ ops' = <<Op("start", 0, <<>>)>>
    /\ UNCHANGED <<now, rows, nextId, cfg, state, isProcessing, runs,
                   injected, failedInj, meta, waits, storage>>

\* registerService start: connectivity.start()
Start(maxProbes) ==
    /\ IF checkInterval
       THEN UNCHANGED <<probes, checkInterval, timers>>
       ELSE /\ CheckBegin(maxProbes)
            /\ checkInterval' = TRUE
            /\ timers' = timers + 1
    /\ ops' = <<Op("start", 0, <<>>)>>
    /\ UNCHANGED <<now, rows, nextId, cfg, state, isProcessing, runs,
                   injected, failedInj, meta, waits, storage>>

\* stop(): clearInterval(this.checkInterval); this.checkInterval = null
stop ==
    IF checkInterval
    THEN /\ timers' = timers - 1
         /\ checkInterval' = FALSE
    ELSE UNCHANGED <<timers, checkInterval>>

\* A caller calls stop() of the monitor.
Stop ==
    /\ stop
    /\ ops' = <<Op("stop", 0, <<>>)>>
    /\ UNCHANGED <<now, rows, nextId, cfg, state, probes, isProcessing, runs,
                   injected, failedInj, meta, waits, storage>>

\* the setInterval callback of an active schedule: this.check()
TimerFire(maxProbes) ==
    /\ timers > 0
    /\ CheckBegin(maxProbes)
    /\ ops' = <<Op("check", 0, <<>>)>>
    /\ UNCHANGED <<now, rows, nextId, cfg, state, checkInterval,
                   isProcessing, runs, injected, failedInj, meta, waits,
                   timers, storage>>

\* CLI "feria check": connectivity.check()
ManualCheck(maxProbes) ==
    /\ CheckBegin(maxProbes)
    /\ ops' = <<Op("check", 0, <<>>)>>
    /\ UNCHANGED <<now, rows, nextId, cfg, state, checkInterval,
                   isProcessing, runs, injected, failedInj, meta, waits,
                   timers, storage>>

\* A check() resumes after its fetch, which settled with one of
\* outcomes: sets the state, emits, and the "online" listener runs
\* processQueue up to its first await.
ProbeCompleteWith(outcomes) ==
    \E prev \in States : \E outcome \in outcomes :
        LET res == checkResult(outcome, state)
            result == res.state
            called == <<Op("checked", OutcomeCode(outcome), <<>>)>>
        IN  /\ probes[prev] > 0
            /\ probes' = [probes EXCEPT ![prev] = @ - 1]
            /\ state' = result
            /\ IF res.raised
               THEN /\ ops' = called \o <<Op("throw", 0, <<>>)>>
                    /\ UNCHANGED <<rows, isProcessing, runs, injected, waits>>
               ELSE /\ IF prev # result /\ result = "online" /\ cfg.autoSync
                          /\ ~isProcessing
                       THEN Invoke(called \o checkEvents(prev, result))
                       ELSE /\ ops' = called \o checkEvents(prev, result)
                            /\ UNCHANGED <<rows, isProcessing, runs,
                                           injected>>
                    /\ waits' = onProbe(waits, prev, result)
            /\ UNCHANGED <<now, nextId, cfg, checkInterval, failedInj, meta,
                   timers, storage>>

\* A probe either gets a success response or fails to connect.
ProbeComplete == ProbeCompleteWith({"ok", "error"})

\* A processQueue invocation resumes after its await of injectMessage,
\* which resolved (TRUE) or rejected (FALSE), one of results.
InjectDoneWith(results) ==
    \E r \in 1..Len(runs) : \E ok \in results :
        /\ UNCHANGED <<now, nextId, cfg, state, checkInterval, probes, meta,
                       waits,
                   timers, storage>>
        /\ \E out \in Resume(rows, runs[r], ok) :
            /\ rows' = out.rows
            /\ runs' = IF out.fin
                       THEN RemoveAt(runs, r)
                       ELSE [runs EXCEPT ![r] = out.run[1]]
            /\ injected' = injected \o out.inj
            /\ isProcessing' = IF out.fin
                               THEN AfterExit(isProcessing, out.ops)
                               ELSE isProcessing
            /\ ops' = out.ops
        /\ failedInj' = IF ok THEN failedInj
                        ELSE failedInj \cup {Head(runs[r].batch)}

\* injectMessage may resolve or reject.
InjectDone == InjectDoneWith(BOOLEAN)

\* Tool feria_queue_sync / CLI "feria sync"
ManualSync ==
    /\ IF ~isOnline
       THEN /\ ops' = <<Op("isOnline", 0, <<>>)>>
            /\ UNCHANGED <<rows, isProcessing, runs, injected>>
       ELSE Invoke(<<Op("isOnline", 1, <<>>)>>)
    /\ UNCHANGED <<now, nextId, cfg, state, checkInterval, probes, failedInj,
                   meta, waits,
                   timers, storage>>

\* Mutant of Intake: enforceMaxSize left out of the hook.
IntakeNoEnforce(maxMsgs) ==
    /\ IF isOnline
       THEN /\ ops' = <<Op("isOnline", 1, <<>>), Op("skip", 0, <<>>)>>
            /\ UNCHANGED <<rows, nextId>>
       ELSE /\ nextId <= maxMsgs
            /\ rows' = enqueue(rows, nextId, now)
            /\ ops' = <<Op("isOnline", 0, <<>>),
                        Op("enqueue", nextId, <<>>),
                        Op("skip", 1, <<>>)>>
            /\ nextId' = nextId + 1
    /\ UNCHANGED <<now, sysVars>>

\* Mutant of Intake: the hook queues only when the state is offline, and
\* lets a message through while the state is unknown.
IntakeOnlyWhenOffline(maxMsgs) ==
    /\ IF state # "offline"
       THEN /\ ops' = <<Op("isOnline", 1, <<>>), Op("skip", 0, <<>>)>>
            /\ UNCHANGED <<rows, nextId>>
       ELSE /\ nextId <= maxMsgs
            /\ \E D \in enforceMaxSizeDeletes(enqueue(rows, nextId, now),
                                              cfg.maxQueueSize) :
                /\ rows' = Delete(enqueue(rows, nextId, now), D)
                /\ ops' = <<Op("isOnline", 0, <<>>),
                            Op("enqueue", nextId, <<>>),
                            Op("enforceMaxSize", cfg.maxQueueSize,
                               <<Cardinality(D)>>),
                            Op("skip", 1, <<>>)>>
            /\ nextId' = nextId + 1
    /\ UNCHANGED <<now, sysVars>>

\* Mutant of Intake: the hook catches the exception of enqueue and
\* signals skipProcessing all the same.
IntakeSwallowsFault(maxMsgs) ==
    /\ IF isOnline
       THEN /\ ops' = <<Op("isOnline", 1, <<>>), Op("skip", 0, <<>>)>>
            /\ UNCHANGED <<rows, nextId>>
       ELSE IF storage # "ok"
       THEN /\ nextId <= maxMsgs
            /\ ops' = <<Op("isOnline", 0, <<>>),
                        Op("enqueue", nextId, <<>>),
                        Op("skip", 1, <<>>)>>
            /\ UNCHANGED <<rows, nextId>>
       ELSE /\ nextId <= maxMsgs
            /\ \E D \in enforceMaxSizeDeletes(enqueue(rows, nextId, now),
                                              cfg.maxQueueSize) :
                /\ rows' = Delete(enqueue(rows, nextId, now), D)
                /\ ops' = <<Op("isOnline", 0, <<>>),
                            Op("enqueue", nextId, <<>>),
                            Op("enforceMaxSize", cfg.maxQueueSize,
                               <<Cardinality(D)>>),
                            Op("skip", 1, <<>>)>>
            /\ nextId' = nextId + 1
    /\ UNCHANGED <<now, sysVars>>

\* The before_message_process hook
Intake(maxMsgs) ==
    /\ IF isOnline
       THEN /\ ops' = <<Op("isOnline", 1, <<>>), Op("skip", 0, <<>>)>>
            /\ UNCHANGED <<rows, nextId>>
       ELSE IF storage # "ok"
       THEN /\ nextId <= maxMsgs
            /\ ops' = <<Op("isOnline", 0, <<>>),
                        Op("enqueue", nextId, <<>>),
                        Op("throw", 0, <<>>)>>
            /\ UNCHANGED <<rows, nextId>>
       ELSE /\ nextId <= maxMsgs
            /\ \E D \in enforceMaxSizeDeletes(enqueue(rows, nextId, now),
                                              cfg.maxQueueSize) :
                /\ rows' = Delete(enqueue(rows, nextId, now), D)
                /\ ops' = <<Op("isOnline", 0, <<>>),
                            Op("enqueue", nextId, <<>>),
                            Op("enforceMaxSize", cfg.maxQueueSize,
                               <<Cardinality(D)>>),
                            Op("skip", 1, <<>>)>>
            /\ nextId' = nextId + 1
    /\ UNCHANGED <<now, sysVars>>

\* CLI "feria cleanup --hours n"
ManualCleanup ==
    \E maxAgeMs \in 0..MaxAge :
        /\ rows' = cleanup(rows, now, maxAgeMs)
        /\ ops' = <<Op("cleanup", maxAgeMs,
                       <<Cardinality(cleanupDeletes(rows, now, maxAgeMs))>>)>>
        /\ UNCHANGED <<now, nextId, sysVars>>

Configs ==
    [maxQueueSize : 1..MaxCfgSize, syncBatchSize : 1..MaxCfgBatch,
     autoSync : BOOLEAN, maxAgeMs : {0, MaxAge}]

InitWith(C) ==
    /\ now = 0
    /\ rows = <<>>
    /\ nextId = 1
    /\ cfg \in C
    /\ state = "unknown"
    /\ checkInterval = FALSE
    /\ probes = [s \in States |-> 0]
    /\ isProcessing = FALSE
    /\ runs = <<>>
    /\ injected = <<>>
    /\ failedInj = {}
    /\ ops = <<>>
    /\ meta = NoMeta
    /\ waits = <<>>
    /\ timers = 0
    /\ storage = "ok"

\* The plugin under every configuration.
Init == InitWith(Configs)

Next ==
    \/ Start(MaxProbes)
    \/ TimerFire(MaxProbes)
    \/ ManualCheck(MaxProbes)
    \/ ProbeComplete
    \/ InjectDone
    \/ ManualSync
    \/ Intake(MaxMsgs)
    \/ ManualCleanup
    \/ Tick

Spec == Init /\ [][Next]_vars

\* A longer backlog: the largest queue, auto-sync on, probes one at a time.
InitBacklog ==
    InitWith({c \in Configs : c.maxQueueSize = MaxCfgSize /\ c.autoSync})

NextBacklog ==
    \/ Start(MaxBacklogProbes)
    \/ TimerFire(MaxBacklogProbes)
    \/ ManualCheck(MaxBacklogProbes)
    \/ ProbeComplete
    \/ InjectDone
    \/ ManualSync
    \/ Intake(MaxBacklogMsgs)
    \/ ManualCleanup
    \/ Tick

SpecBacklog == InitBacklog /\ [][NextBacklog]_vars

\* Auto-sync on, and the scheduling the runtime gives: the host starts the
\* service, a fetch settles (it is aborted after 5 s), injectMessage
\* settles, the interval timer keeps firing while it is set.
InitFair ==
    InitWith({c \in Configs : c.autoSync /\ c.maxAgeMs = MaxAge})

NextFair ==
    \/ Start(MaxFairProbes)
    \/ TimerFire(MaxFairProbes)
    \/ ManualCheck(MaxFairProbes)
    \/ ProbeComplete
    \/ InjectDone
    \/ ManualSync
    \/ Intake(MaxFairMsgs)
    \/ ManualCleanup
    \/ Tick

FairSpec ==
    /\ InitFair
    /\ [][NextFair]_vars
    /\ WF_vars(~checkInterval /\ Start(MaxFairProbes))
    /\ WF_vars(ProbeComplete)
    /\ WF_vars(InjectDone)
    /\ WF_vars(TimerFire(MaxFairProbes))

\* ------------------------------------------- a message's metadata
\* The metadata of one message from the hook to injectMessage:
\* enqueue writes JSON.stringify(message.metadata) into the column,
\* rowToMessage reads it back with JSON.parse, processQueue passes
\* { ...msg.metadata, feriaMode: { queuedAt, processedAt } }.
\* An object is a function from its keys; a caller's value is a 1-tuple,
\* the object { queuedAt, processedAt } the pair of the two.
MetaKeys == {"feriaMode", "lang", "source"}

KeyOrder == <<"feriaMode", "lang", "source">>

MetaValues == {<<1>>, <<2>>}

Metadatas == UNION {[K -> MetaValues] : K \in SUBSET MetaKeys}

\* JSON.stringify of an object: its members, key and value, in order.
RECURSIVE JSONstringifyFrom(_, _)
JSONstringifyFrom(md, n) ==
    IF n = 0
    THEN <<>>
    ELSE JSONstringifyFrom(md, n - 1) \o
         (IF KeyOrder[n] \in DOMAIN md
          THEN <<[key |-> KeyOrder[n], value |-> md[KeyOrder[n]]]>>
          ELSE <<>>)

JSONstringify(md) == JSONstringifyFrom(md, Len(KeyOrder))

\* JSON.parse of such a text: the object of its members.
JSONparse(text) ==
    [k \in {text[a].key : a \in 1..Len(text)} |->
        text[CHOOSE a \in 1..Len(text) : text[a].key = k].value]

\* metadata: { ...msg.metadata, feriaMode: { queuedAt, processedAt } }
injectMetadata(md, queuedAt, processedAt) ==
    [k \in (DOMAIN md) \cup {"feriaMode"} |->
        IF k = "feriaMode" THEN <<queuedAt, processedAt>> ELSE md[k]]

\* queue.enqueue({ ..., metadata: event.metadata ?? {} })
MetaEnqueue ==
    /\ meta.pc = "given"
    /\ rows' = enqueue(rows, nextId, now)
    /\ nextId' = nextId + 1
    /\ meta' = [meta EXCEPT !.pc = "queued",
                            !.column = JSONstringify(meta.given),
                            !.queuedAt = now]
    /\ ops' = <<Op("enqueue", nextId, <<>>)>>
    /\ UNCHANGED <<now, cfg, state, checkInterval, probes, isProcessing,
                   runs, injected, failedInj, waits,
                   timers, storage>>

\* getPending: stmt.all(limit).map(this.rowToMessage)
MetaGetPending ==
    /\ meta.pc = "queued"
    /\ \E res \in getPending(rows, cfg.syncBatchSize) :
          /\ res # <<>>
          /\ ops' = <<Op("getPending", cfg.syncBatchSize, res)>>
    /\ meta' = [meta EXCEPT !.pc = "fetched",
                            !.msg = JSONparse(meta.column)]
    /\ UNCHANGED <<now, rows, nextId, cfg, state, checkInterval, probes,
                   isProcessing, runs, injected, failedInj, waits,
                   timers, storage>>

\* markProcessing(msg.id); api.injectMessage({ ..., metadata: ... })
MetaInject ==
    /\ meta.pc = "fetched"
    /\ \E id \in DOMAIN rows :
          /\ rows' = markProcessing(rows, id, now)
          /\ injected' = Append(injected, id)
          /\ ops' = <<Op("markProcessing", id, <<>>),
                      Op("inject", id, <<>>)>>
    /\ meta' = [meta EXCEPT !.pc = "passed",
                            !.passed = injectMetadata(meta.msg, meta.queuedAt,
                                                      now)]
    /\ UNCHANGED <<now, nextId, cfg, state, checkInterval, probes,
                   isProcessing, runs, failedInj, waits,
                   timers, storage>>

\* Every metadata object a caller may give.
InitMeta ==
    /\ now = 0
    /\ rows = <<>>
    /\ nextId = 1
    /\ cfg = [maxQueueSize |-> 1, syncBatchSize |-> 1, autoSync |-> TRUE,
              maxAgeMs |-> 0]
    /\ state = "offline"
    /\ checkInterval = FALSE
    /\ probes = [s \in States |-> 0]
    /\ isProcessing = FALSE
    /\ runs = <<>>
    /\ injected = <<>>
    /\ failedInj = {}
    /\ ops = <<>>
    /\ \E md \in Metadatas : meta = [NoMeta EXCEPT !.pc = "given",
                                                    !.given = md]
    /\ waits = <<>>
    /\ timers = 0
    /\ storage = "ok"

NextMeta ==
    \/ MetaEnqueue
    \/ MetaGetPending
    \/ MetaInject
    \/ Tick

SpecMeta == InitMeta /\ [][NextMeta]_vars

\* ------------------------------------------------- waitForOnline
MaxWaits == 2         \* SpecWait: waitForOnline calls ever made
MaxWaitProbes == 2    \* SpecWait: check() calls in flight at once

\* A caller calls waitForOnline.
WaitForOnline ==
    /\ Len(waits) < MaxWaits
    /\ waits' = Append(waits, waitForOnline)
    /\ ops' = <<Op("waitForOnline", 0, <<>>)>>
    /\ UNCHANGED <<now, rows, nextId, cfg, state, checkInterval, probes,
                   isProcessing, runs, injected, failedInj, meta,
                   timers, storage>>

\* The timeout of a waitForOnline call elapses.
WaitTimeout ==
    \E w \in 1..Len(waits) :
        /\ waits[w].timer
        /\ waits' = [waits EXCEPT ![w] = onTimeout(@)]
        /\ ops' = <<Op("timeout", w, <<>>)>>
        /\ UNCHANGED <<now, rows, nextId, cfg, state, checkInterval, probes,
                       isProcessing, runs, injected, failedInj, meta,
                   timers, storage>>

\* The monitor with callers waiting for it, the queue empty.
InitWait ==
    InitWith({c \in Configs : c.maxQueueSize = 1 /\ c.syncBatchSize = 1
                                /\ c.maxAgeMs = 0})

NextWait ==
    \/ Start(MaxWaitProbes)
    \/ TimerFire(MaxWaitProbes)
    \/ ManualCheck(MaxWaitProbes)
    \/ ProbeCompleteWith(Outcomes)
    \/ WaitForOnline
    \/ WaitTimeout

SpecWait == InitWait /\ [][NextWait]_vars

\* ------------------------------------------- service stop and faults
MaxSvcMsgs == 2       \* SpecService: messages that arrive
MaxSvcProbes == 1     \* SpecService: check() calls in flight at once
MaxSvcInjected == 2   \* SpecService: no new fault after so many hand-overs

\* registerService stop: connectivity.stop(); queue.close()
ServiceStop ==
    /\ stop
    /\ storage' = "closed"
    /\ ops' = <<Op("stop", 0, <<>>), Op("close", 0, <<>>)>>
    /\ UNCHANGED <<now, rows, nextId, cfg, state, probes, isProcessing, runs,
                   injected, failedInj, meta, waits>>

\* The open database starts to fail: its operations raise.
StorageFail ==
    /\ storage = "ok"
    /\ Len(injected) <= MaxSvcInjected
    /\ storage' = "fault"
    /\ ops' = <<>>
    /\ UNCHANGED <<now, rows, nextId, cfg, state, checkInterval, probes,
                   isProcessing, runs, injected, failedInj, meta, waits,
                   timers>>

\* The failing database works again.
StorageRecover ==
    /\ storage = "fault"
    /\ storage' = "ok"
    /\ ops' = <<>>
    /\ UNCHANGED <<now, rows, nextId, cfg, state, checkInterval, probes,
                   isProcessing, runs, injected, failedInj, meta, waits,
                   timers>>

SvcConfigs ==
    [maxQueueSize : {MaxSvcMsgs}, syncBatchSize : 1..MaxSvcMsgs,
     autoSync : BOOLEAN, maxAgeMs : {MaxAge}]

InitService == InitWith(SvcConfigs)

\* The plugin with its service stopped at any moment and a database
\* that may fail.
NextService ==
    \/ Start(MaxSvcProbes)
    \/ ServiceStop
    \/ TimerFire(MaxSvcProbes)
    \/ ProbeComplete
    \/ InjectDone
    \/ ManualSync
    \/ Intake(MaxSvcMsgs)
    \/ StorageFail
    \/ StorageRecover

SpecService == InitService /\ [][NextService]_vars

\* -------------------------------------------------- an undisturbed drain
MaxDrainMsgs == 3     \* FairDrain: messages that arrive
MaxDrainProbes == 1   \* FairDrain: check() calls in flight at once

DrainConfigs ==
    [maxQueueSize : {MaxDrainMsgs}, syncBatchSize : 1..MaxDrainMsgs,
     autoSync : BOOLEAN, maxAgeMs : {0, MaxAge}]

InitDrain == InitWith(DrainConfigs)

\* The plugin where every probe gets a success response and injectMessage
\* always resolves: messages queue up until the first probe completes,
\* from then on the state is online.
NextDrain ==
    \/ Start(MaxDrainProbes)
    \/ TimerFire(MaxDrainProbes)
    \/ ProbeCompleteWith({"ok"})
    \/ InjectDoneWith({TRUE})
    \/ ManualSync
    \/ Intake(MaxDrainMsgs)
    \/ Tick

\* An awaited injectMessage settles in the end.
FairDrain ==
    /\ InitDrain
    /\ [][NextDrain]_vars
    /\ WF_vars(InjectDoneWith({TRUE}))

\* ------------------------------------------------- start and stop
MaxLifeProbes == 2    \* SpecLife: check() calls in flight at once

\* The monitor under any sequence of start() and stop() calls; every
\* probe is one the monitor started itself.
NextLife ==
    \/ Start(MaxLifeProbes)
    \/ Stop
    \/ TimerFire(MaxLifeProbes)
    \/ ProbeCompleteWith(Outcomes)

SpecLife == InitWait /\ [][NextLife]_vars

\* ------------------------------------------------------------- claims

\* C1: with autoSync on and fair scheduling, no message stays pending
\* forever while the monitor state stays online: whenever the state becomes
\* online for good, every enqueued message leaves status pending.
C1_PendingLeavesWhileOnline ==
    \A i \in Ids : []<>(~(state = "online" /\ i \in Pending(rows)))

\* C2: after any sequence of queue operations getPending(limit) returns
\* only pending rows, each once, min(limit, number pending) of them, none
\* newer than a pending row it leaves out, in nondecreasing queuedAt order.
C2_GetPendingOldestFirst ==
    (Len(ops) = 1 /\ ops[1].op = "getPending") =>
        LET res == ops[1].out
            got == {res[a] : a \in 1..Len(res)}
        IN  /\ got \subseteq Pending(rows)
            /\ Cardinality(got) = Len(res)
            /\ Len(res) = Min(ops[1].arg, Cardinality(Pending(rows)))
            /\ \A i \in got : \A j \in Pending(rows) \ got :
                  rows[i].queuedAt <= rows[j].queuedAt
            /\ \A a \in 1..Len(res) : \A b \in 1..Len(res) :
                  a < b => rows[res[a]].queuedAt <= rows[res[b]].queuedAt

\* A getPending that had to reorder: it returned two of three rows, a row
\* inserted later before a row inserted earlier, and left a non-pending
\* row out.
C2_Witness ==
    /\ Len(ops) = 1
    /\ ops[1].op = "getPending"
    /\ Len(ops[1].out) = 2
    /\ ops[1].out[1] > ops[1].out[2]
    /\ rows[ops[1].out[1]].queuedAt < rows[ops[1].out[2]].queuedAt
    /\ \E i \in DOMAIN rows : rows[i].status # "pending"

\* The step called processQueue and the call returned 0 at once.
InvokedReturning0(o) ==
    \E k \in 1..Len(o) :
        /\ o[k].op = "processQueue"
        /\ Len(o) = k + 1
        /\ o[k + 1] = Op("return", 0, <<>>)

HasOp(o, name) == \E k \in 1..Len(o) : o[k].op = name

\* C3: at most one processQueue run is in flight, and a processQueue call
\* made while a run is in flight returns 0 and changes neither the table
\* nor the runs and re-injects nothing.
C3_SingleRun ==
    [][/\ Len(runs') <= 1
       /\ (runs # <<>> /\ HasOp(ops', "processQueue")) =>
             /\ InvokedReturning0(ops')
             /\ rows' = rows
             /\ runs' = runs
             /\ injected' = injected]_vars

\* A manual sync made while a run awaits injectMessage has returned 0.
C3_Witness ==
    /\ runs # <<>>
    /\ ops = <<Op("isOnline", 1, <<>>), Op("processQueue", 0, <<>>),
               Op("return", 0, <<>>)>>

\* The number of online/offline events emitted in a step.
NumEvents(o) ==
    Cardinality({k \in 1..Len(o) : o[k].op \in {"emit_online", "emit_offline"}})

\* C4: the monitor emits exactly one online or offline event in a step
\* that changes its state and none in any other step.
C4_OneEventPerTransition ==
    [][NumEvents(ops') = IF state' # state THEN 1 ELSE 0]_vars

\* C5: markProcessing of a row that is not pending leaves the row as it
\* is; of a pending row it sets processing and adds one to attempts.
C5_MarkProcessingOnlyPending ==
    [][\A id \in DOMAIN rows :
          ops' = <<Op("markProcessing", id, <<>>)>> =>
              IF rows[id].status = "pending"
              THEN /\ rows'[id].status = "processing"
                   /\ rows'[id].attempts = rows[id].attempts + 1
              ELSE rows'[id] = rows[id]]_vars

\* C6: a row that is completed or failed keeps its status for as long as
\* it exists.
C6_TerminalStatusFinal ==
    [][\A i \in (DOMAIN rows) \cap (DOMAIN rows') :
          rows[i].status \in {"completed", "failed"} =>
              rows'[i].status = rows[i].status]_vars

\* C7: a message whose re-injection fails ends failed with attempts = 1,
\* and from then on no getPending of a drain returns it and it is not
\* passed to injectMessage again.
C7_FailedIsFinal ==
    [][/\ \A i \in failedInj' \ failedInj :
             /\ i \in DOMAIN rows'
             /\ rows'[i].status = "failed"
             /\ rows'[i].attempts = 1
       /\ \A i \in failedInj :
             /\ i \in DOMAIN rows' => rows'[i].status # "pending"
             /\ \A k \in 1..Len(ops') :
                   /\ ops'[k].op = "getPending" =>
                         \A a \in 1..Len(ops'[k].out) : ops'[k].out[a] # i
                   /\ ops'[k] # Op("inject", i, <<>>)]_vars

\* C8: when injectMessage rejects for a message of a batch, markFailed is
\* applied to it and the run goes on in the same batch: the next message
\* is marked processing and passed to injectMessage, and the run is still
\* in flight (nothing was thrown out of processQueue).
C8_FailureDoesNotAbortBatch ==
    [][\A r \in 1..Len(runs) :
          LET h == Head(runs[r].batch)
              rest == Tail(runs[r].batch)
          IN  (Len(ops') >= 1 /\ ops'[1] = Op("injectErr", h, <<>>)) =>
                /\ Len(ops') >= 2
                /\ ops'[2] = Op("markFailed", h, <<>>)
                /\ h \in DOMAIN rows => /\ h \in DOMAIN rows'
                                        /\ rows'[h].status = "failed"
                /\ ~HasOp(ops', "throw")
                /\ rest # <<>> =>
                      /\ ops' = <<Op("injectErr", h, <<>>),
                                  Op("markFailed", h, <<>>),
                                  Op("markProcessing", Head(rest), <<>>),
                                  Op("inject", Head(rest), <<>>)>>
                      /\ injected' = Append(injected, Head(rest))
                      /\ Head(rest) \in DOMAIN rows =>
                            rows'[Head(rest)].status = "processing"
                      /\ Len(runs') = Len(runs)
                      /\ runs'[r].batch = rest]_vars

\* A rejected injectMessage was followed, in the same batch, by the next
\* message being marked processing and passed on.
C8_Witness ==
    /\ Len(ops) = 4
    /\ ops[1].op = "injectErr"
    /\ ops[2].op = "markFailed"
    /\ ops[4].op = "inject"
    /\ rows[ops[1].arg].status = "failed"
    /\ rows[ops[4].arg].status = "processing"

C10_EnforceMaxSizeOldest ==
    [][(Len(ops') = 1 /\ ops'[1].op = "enforceMaxSize") =>
          LET gone == (DOMAIN rows) \ (DOMAIN rows')
              P == Pending(rows)
              k == Cardinality(P) - ops'[1].arg
          IN  /\ DOMAIN rows' \subseteq DOMAIN rows
              /\ \A i \in DOMAIN rows' : rows'[i] = rows[i]
              /\ ops'[1].out = <<Cardinality(gone)>>
              /\ IF k > 0
                 THEN /\ Cardinality(gone) = k
                      /\ gone \subseteq P
                      /\ \A d \in gone : \A i \in P \ gone :
                            rows[d].queuedAt <= rows[i].queuedAt
                      /\ Cardinality(Pending(rows')) = ops'[1].arg
                 ELSE gone = {}]_vars

\* An enforceMaxSize(1) dropped one pending row, kept the newer one, and
\* left an older row that is not pending.
C10_Witness ==
    /\ ops = <<Op("enforceMaxSize", 1, <<1>>)>>
    /\ Cardinality(Pending(rows)) = 1
    /\ \E i \in DOMAIN rows : \E j \in Pending(rows) :
          /\ rows[i].status # "pending"
          /\ rows[i].queuedAt < rows[j].queuedAt

\* C11: resetProcessing() makes every processing row pending and changes
\* nothing else (no other row, no attempts, no queuedAt), returns the
\* number of rows it changed, and a getPending that follows returns the
\* rows it changed.
C11_ResetProcessingExact ==
    [][(Len(ops') = 1 /\ ops'[1].op = "resetProcessing") =>
          LET stuck == {i \in DOMAIN rows : rows[i].status = "processing"}
          IN  /\ DOMAIN rows' = DOMAIN rows
              /\ \A i \in stuck :
                    rows'[i] = [rows[i] EXCEPT !.status = "pending"]
              /\ \A i \in (DOMAIN rows) \ stuck : rows'[i] = rows[i]
              /\ ops'[1].out = <<Cardinality(stuck)>>
              /\ \A res \in getPending(rows', Cardinality(DOMAIN rows')) :
                    stuck \subseteq {res[a] : a \in 1..Len(res)}]_vars

\* A resetProcessing changed one row that had been attempted, and left a
\* failed and a completed row as they were.
C11_Witness ==
    /\ ops = <<Op("resetProcessing", 0, <<1>>)>>
    /\ \E i \in Pending(rows) : rows[i].attempts > 0
    /\ WithStatus(rows, {"failed"}) # {}
    /\ WithStatus(rows, {"completed"}) # {}

\* The rows whose status changes to completed in a step.
NewlyCompleted ==
    {i \in (DOMAIN rows) \cap (DOMAIN rows') :
        rows[i].status # "completed" /\ rows'[i].status = "completed"}

\* The count "processed" of run r after a step: the value it returns if
\* it returns in the step, else the value it holds at its next await.
ProcessedAfter(r) ==
    IF Len(runs') = Len(runs)
    THEN runs'[r].processed
    ELSE ops'[CHOOSE k \in 1..Len(ops') : ops'[k].op = "return"].arg

\* C12: the value processQueue returns is the number of records whose
\* status changed to completed during the invocation: a run starts
\* counting at 0, each of its steps adds to the count the number of records
\* that become completed in the step, no record becomes completed in any
\* other step, and the count is what the run returns.
C12_ReturnCountsCompleted ==
    [][IF Len(ops') >= 1 /\ ops'[1].op \in {"injectOk", "injectErr"}
       THEN \A r \in 1..Len(runs) :
               ops'[1].arg = Head(runs[r].batch) =>
                   ProcessedAfter(r) =
                       runs[r].processed + Cardinality(NewlyCompleted)
       ELSE /\ NewlyCompleted = {}
            /\ Len(runs') > Len(runs) => runs'[Len(runs')].processed = 0
            /\ \A k \in 1..Len(ops') :
                  ops'[k].op = "return" => ops'[k].arg = 0]_vars

\* C13: within one processQueue run the messages passed to injectMessage
\* are in nondecreasing queuedAt order, within a batch, across batch
\* boundaries and when messages are enqueued during the drain (the clock
\* of this specification never goes back).
C13_ReplayOrderWithinRun ==
    [][\A r \in 1..Len(runs) :
          (/\ Len(ops') >= 1
           /\ ops'[1].op \in {"injectOk", "injectErr"}
           /\ ops'[1].arg = Head(runs[r].batch)
           /\ HasOp(ops', "inject")) =>
              /\ Len(runs') = Len(runs)
              /\ runs[r].at[1] <= runs'[r].at[1]
              /\ \A a \in 1..Len(runs'[r].at) : \A b \in 1..Len(runs'[r].at) :
                    a < b => runs'[r].at[a] <= runs'[r].at[b]]_vars

\* One run replayed messages 1 and 2 of its first batch and then, from a
\* second batch, message 3, which was enqueued later, during the drain.
C13_Witness ==
    /\ cfg.maxQueueSize = 2
    /\ cfg.syncBatchSize = 2
    /\ Len(runs) = 1
    /\ runs[1].processed = 2
    /\ injected = <<1, 2, 3>>
    /\ DOMAIN rows = {1, 2, 3}
    /\ rows[2].queuedAt < rows[3].queuedAt
    /\ HasOp(ops, "getPending")

\* C14: when the state is not online as a batch of a drain finishes, the
\* run fetches no further batch: after the last message's markCompleted or
\* markFailed it only reads isOnline and returns, with no getPending, no
\* markProcessing and no injectMessage, and every record that was pending
\* is still there, pending, as it was.
C14_OfflineStopsDrain ==
    [][\A r \in 1..Len(runs) :
          LET h == Head(runs[r].batch)
          IN  (/\ Len(ops') >= 1
               /\ ops'[1].op \in {"injectOk", "injectErr"}
               /\ ops'[1].arg = h
               /\ Len(runs[r].batch) = 1
               /\ state # "online") =>
                  /\ Len(ops') = 4
                  /\ ops'[2].op \in {"markCompleted", "markFailed"}
                  /\ ops'[3] = Op("isOnline", 0, <<>>)
                  /\ ops'[4].op = "return"
                  /\ runs' = RemoveAt(runs, r)
                  /\ injected' = injected
                  /\ ~isProcessing'
                  /\ \A i \in Pending(rows) \ {h} :
                        i \in DOMAIN rows' /\ rows'[i] = rows[i]
                  /\ \A i \in DOMAIN rows' :
                        i # h => i \in DOMAIN rows /\ rows'[i] = rows[i]]_vars

\* A drain stopped after a batch because the state was not online, and
\* left a pending record behind.
C14_Witness ==
    /\ Len(ops) = 4
    /\ ops[1].op \in {"injectOk", "injectErr"}
    /\ ops[3] = Op("isOnline", 0, <<>>)
    /\ ops[4].op = "return"
    /\ state # "online"
    /\ runs = <<>>
    /\ Pending(rows) # {}

\* C15: the hook, when the state is offline or unknown, enqueues the
\* message as a pending record, then runs enforceMaxSize(maxQueueSize),
\* and signals skipProcessing; when the state is online it leaves the
\* queue as it is and gives no skip signal.
C15_IntakeGate ==
    [][HasOp(ops', "skip") =>
          IF state = "online"
          THEN /\ ops' = <<Op("isOnline", 1, <<>>), Op("skip", 0, <<>>)>>
               /\ rows' = rows
               /\ nextId' = nextId
          ELSE LET id == nextId
                   gone == ((DOMAIN rows) \cup {id}) \ (DOMAIN rows')
               IN  /\ Len(ops') = 4
                   /\ ops'[1] = Op("isOnline", 0, <<>>)
                   /\ ops'[2] = Op("enqueue", id, <<>>)
                   /\ ops'[3] = Op("enforceMaxSize", cfg.maxQueueSize,
                                   <<Cardinality(gone)>>)
                   /\ ops'[4] = Op("skip", 1, <<>>)
                   /\ id \notin DOMAIN rows
                   /\ DOMAIN rows' \subseteq (DOMAIN rows) \cup {id}
                   /\ id \in DOMAIN rows' =>
                         rows'[id] = [queuedAt |-> now, attempts |-> 0,
                                      lastAttemptAt |-> NULL,
                                      status |-> "pending"]
                   /\ \A i \in (DOMAIN rows) \cap (DOMAIN rows') :
                         rows'[i] = rows[i]
                   /\ \A i \in gone \ {id} : rows[i].status = "pending"
                   /\ Cardinality(Pending(rows')) =
                         Min(Cardinality(Pending(rows)) + 1,
                             cfg.maxQueueSize)]_vars

\* The hook ran while the state was unknown (no probe had completed): it
\* queued the message, enforceMaxSize dropped a record, and it signalled
\* skip.
C15_Witness ==
    /\ state = "unknown"
    /\ Len(ops) = 4
    /\ ops[1] = Op("isOnline", 0, <<>>)
    /\ ops[2].op = "enqueue"
    /\ ops[3] = Op("enforceMaxSize", cfg.maxQueueSize, <<1>>)
    /\ ops[4] = Op("skip", 1, <<>>)
    /\ Cardinality(Pending(rows)) = cfg.maxQueueSize

\* C16: in every state the plugin reaches through the hook, probes and
\* processQueue runs, the number of pending records is at most
\* maxQueueSize (the hook runs without interruption, so no state has it
\* half done).
C16_PendingBounded == Cardinality(Pending(rows)) <= cfg.maxQueueSize

\* The queue is at its limit just after the hook dropped a record, while
\* a drain is in flight.
C16_Witness ==
    /\ Len(ops) = 4
    /\ ops[3] = Op("enforceMaxSize", cfg.maxQueueSize, <<1>>)
    /\ runs # <<>>
    /\ Cardinality(Pending(rows)) = cfg.maxQueueSize

\* C17: pending records of equal queuedAt are returned by getPending in
\* the order in which they were enqueued.
C17_TiesInInsertionOrder ==
    (Len(ops) = 1 /\ ops[1].op = "getPending") =>
        LET res == ops[1].out
        IN  \A a \in 1..Len(res) : \A b \in 1..Len(res) :
                (a < b /\ rows[res[a]].queuedAt = rows[res[b]].queuedAt) =>
                    res[a] < res[b]

\* C18: the metadata passed to injectMessage for a queued message has
\* every key of the metadata the caller gave at enqueue, each with the
\* value the caller gave, whatever the caller's keys are (a key named
\* feriaMode included).
C18_CallerMetadataKept ==
    meta.pc = "passed" =>
        \A k \in DOMAIN meta.given :
            /\ k \in DOMAIN meta.passed
            /\ meta.passed[k] = meta.given[k]

\* C19: a waitForOnline call resolves at most once, has resolved once
\* its listener and its timeout are both gone, resolves with true only if
\* the state was online at the call or has been online since, and with
\* false only if the state has not been online since the call, whatever
\* probes (overlapping or not) run meanwhile.
C19_WaitForOnline ==
    \A w \in 1..Len(waits) :
        /\ Len(waits[w].results) <= 1
        /\ (~waits[w].listening /\ ~waits[w].timer) =>
              Len(waits[w].results) = 1
        /\ waits[w].results = <<TRUE>> => waits[w].sawOnline
        /\ waits[w].results = <<FALSE>> => ~waits[w].sawOnline

\* C20: check() never raises; a probe that gets a success status sets the
\* state online and every other outcome (another status, the timeout, a
\* connection error) sets it offline; the state is unknown only until the
\* first probe completes and is never unknown again.
C20_CheckNeverRaises ==
    [][/\ state # "unknown" => state' # "unknown"
       /\ (Len(ops') >= 1 /\ ops'[1].op = "checked") =>
             /\ ~HasOp(ops', "throw")
             /\ state' = IF ops'[1].arg = OutcomeCode("ok")
                         THEN "online"
                         ELSE "offline"]_vars

\* A probe aborted by its timeout set the state offline, the change was
\* announced, and no other probe is in flight.
C20_Witness ==
    /\ ops = <<Op("checked", OutcomeCode("timeout"), <<>>),
               Op("emit_change", 0, <<>>), Op("emit_offline", 0, <<>>)>>
    /\ state = "offline"
    /\ probes["online"] = 0
    /\ probes["unknown"] = 0
    /\ probes["offline"] = 0

\* C22: markCompleted of a record that markCompleted has already made
\* completed changes nothing: the record stays completed with the same
\* attempts, queuedAt and lastAttemptAt, and no other record changes.
C22_MarkCompletedIdempotent ==
    [][\A id \in DOMAIN rows :
          (ops' = <<Op("markCompleted", id, <<>>)>>
              /\ rows[id].status = "completed") => rows' = rows]_vars

\* markCompleted has run on a record that was attempted; the same call
\* made again from here is the second call.
C22_Witness ==
    \E id \in DOMAIN rows :
        /\ ops = <<Op("markCompleted", id, <<>>)>>
        /\ rows[id].status = "completed"
        /\ rows[id].attempts > 0
        /\ rows[id].lastAttemptAt # NULL
        /\ Cardinality(DOMAIN rows) > 1

\* C24: the attempts of a record never decreases, and it increases, by
\* exactly one, only in a step in which the record's status changes to
\* processing (from another status).
C24_AttemptsOnlyOnEnteringProcessing ==
    [][\A i \in (DOMAIN rows) \cap (DOMAIN rows') :
          /\ rows'[i].attempts >= rows[i].attempts
          /\ rows'[i].attempts # rows[i].attempts =>
                /\ rows'[i].attempts = rows[i].attempts + 1
                /\ rows'[i].status = "processing"
                /\ rows[i].status # "processing"]_vars

\* C26: whenever the drain passes a message to injectMessage, a record
\* with that id is in the table with status processing; a message that
\* enforceMaxSize deleted after the drain fetched it is not passed on.
C26_InjectedRecordIsProcessing ==
    [][\A k \in 1..Len(ops') :
          ops'[k].op = "inject" =>
              /\ ops'[k].arg \in DOMAIN rows'
              /\ rows'[ops'[k].arg].status = "processing"]_vars

\* C27: while the process runs, no message id is passed to injectMessage
\* more than once, over all automatic and manual runs.
C27_InjectedAtMostOnce ==
    \A a \in 1..Len(injected) : \A b \in 1..Len(injected) :
        a # b => injected[a] # injected[b]

\* C21: under any sequence of start() and stop() calls at most one
\* periodic schedule is active, and it is the one the monitor holds;
\* start() while started sets no schedule and issues no probe; stop()
\* leaves no schedule active, and a periodic probe starts only while a
\* schedule is held (none between a stop() and the next start()).
C21_OneSchedule ==
    [][/\ timers' <= 1
       /\ checkInterval' <=> timers' = 1
       /\ (ops' = <<Op("start", 0, <<>>)>> /\ checkInterval) =>
             /\ probes' = probes
             /\ timers' = timers
       /\ ops' = <<Op("stop", 0, <<>>)>> =>
             /\ timers' = 0
             /\ probes' = probes
       /\ ops' = <<Op("check", 0, <<>>)>> => checkInterval]_vars

\* A start() call has just returned: one schedule is active, two probes
\* are in flight and an earlier probe has already settled the state.
C21_Witness ==
    /\ ops = <<Op("start", 0, <<>>)>>
    /\ timers = 1
    /\ checkInterval
    /\ InFlight = 2
    /\ state # "unknown"

\* The operations of MessageQueue on the database.
QueueOps ==
    {"enqueue", "getPending", "markProcessing", "markCompleted",
     "markFailed", "resetProcessing", "cleanup", "enforceMaxSize"}

\* C23: when enqueue raises inside the hook the exception reaches the
\* hook's caller and the hook signals no skipProcessing; the hook
\* signals skipProcessing only in a step that wrote a pending record for
\* the message.
C23_IntakeFaultPropagates ==
    [][\A k \in 1..Len(ops') :
         /\ (ops'[k].op = "enqueue" /\ storage # "ok") =>
               /\ Raised(ops')
               /\ \A j \in 1..Len(ops') : ops'[j].op # "skip"
               /\ rows' = rows
         /\ (ops'[k].op = "skip" /\ ops'[k].arg = 1) =>
               /\ ops'[2].op = "enqueue"
               /\ ops'[2].arg \notin DOMAIN rows
               /\ ops'[2].arg \in DOMAIN enqueue(rows, ops'[2].arg, now)
               /\ enqueue(rows, ops'[2].arg, now)[ops'[2].arg].status
                     = "pending"
               /\ storage = "ok"]_vars

\* The hook has just let the exception of enqueue through while the
\* state was offline, with an earlier message on record.
C23_Witness ==
    /\ ops = <<Op("isOnline", 0, <<>>), Op("enqueue", nextId, <<>>),
               Op("throw", 0, <<>>)>>
    /\ storage = "fault"
    /\ state = "offline"
    /\ nextId \notin DOMAIN rows
    /\ rows # <<>>

\* C28: once the service stop has closed the database, neither a probe
\* completing nor a processQueue run resuming calls an operation of the
\* queue.
C28_NoQueueCallAfterClose ==
    [][(/\ storage = "closed"
        /\ ops' # <<>>
        /\ ops'[1].op \in {"checked", "injectOk", "injectErr"}) =>
          \A k \in 1..Len(ops') : ops'[k].op \notin QueueOps]_vars

\* C29: the in-flight flag is set exactly while an invocation of
\* processQueue is between its guard and its exit: after every exit, by
\* return, by the offline stop or by an exception of a queue operation,
\* the flag is false.
C29_FlagReleasedOnExit ==
    /\ isProcessing <=> runs # <<>>
    /\ Len(runs) <= 1

\* A run has just ended because a queue operation raised after its
\* injectMessage succeeded; the flag is false and a record is left in
\* processing.
C29_Witness ==
    /\ Raised(ops)
    /\ ops[1].op = "injectOk"
    /\ ~isProcessing
    /\ runs = <<>>
    /\ WithStatus(rows, {"processing"}) # {}

\* C25: with the state online throughout and every injectMessage
\* resolving, a processQueue run over n pending records fetches them in
\* batches of min(b, what is still pending) records, b the batch size,
\* a new batch only when the last is done; it counts every record it has
\* completed; it ends; when it returns, its value is n, all n records
\* are completed and none is pending. A run that finds nothing pending
\* returns 0 at once.
C25_DrainCompletesAll ==
    /\ [](runs # <<>> =>
            /\ state = "online"
            /\ runs[1].processed + Cardinality(Pending(rows))
                 + Cardinality(WithStatus(rows, {"processing"}))
               = Cardinality(DOMAIN rows)
            /\ runs[1].processed
               = Cardinality(WithStatus(rows, {"completed"})))
    /\ [][/\ \A k \in 1..Len(ops') :
               ops'[k].op = "getPending" =>
                 /\ Len(ops'[k].out)
                    = Min(cfg.syncBatchSize, Cardinality(Pending(rows)))
                 /\ runs # <<>> => Len(runs[1].batch) = 1
          /\ (HasOp(ops', "return") /\ HasOp(ops', "injectOk")) =>
                 /\ ops'[Len(ops')]
                    = Op("return", Cardinality(DOMAIN rows), <<>>)
                 /\ Pending(rows') = {}
                 /\ WithStatus(rows', {"completed"}) = DOMAIN rows
                 /\ runs' = <<>>
          /\ (HasOp(ops', "return") /\ HasOp(ops', "resetProcessing")) =>
                 /\ ops'[Len(ops')] = Op("return", 0, <<>>)
                 /\ Pending(rows) = {}]_vars
    /\ (runs # <<>> ~> runs = <<>>)

\* A run over three pending records with batch size 2 has just returned
\* 3: it fetched a last batch of one record and then found nothing.
C25_Witness ==
    /\ cfg.syncBatchSize = 2
    /\ Len(ops) > 0
    /\ ops[Len(ops)] = Op("return", 3, <<>>)
    /\ HasOp(ops, "getPending")
    /\ WithStatus(rows, {"completed"}) = 1..3
    /\ injected = <<1, 2, 3>>
    /\ runs = <<>>

====
